---- MODULE Spec2Model ----
(***************************************************************************)
(* Authentication callbacks of apps/web/app/api/auth/[...nextauth]/route.ts *)
(* over the relational store they share: OTP issue and verification, the    *)
(* device-session admission gate of callbacks.signIn, events.signOut and    *)
(* callbacks.redirect.  Every request runs in one of the slots of Procs; a  *)
(* handler takes one step per awaited data-layer call, so requests          *)
(* interleave exactly at the awaits of the source.                          *)
(***************************************************************************)
EXTENDS Integers, Sequences, FiniteSets

\* ------------------------------------------------------------------ bounds
NumProcs == 2
MaxOtps == 2
MaxTicks == 1
TickMs == 600000
RandSteps == 2
MaxGateRows == 3
MaxAudit == 2
MaxPlanDevices == 2
NumFingerprints == 1
MaxUrlLen == 2
RandGrain == 1000

\* -------------------------------------------------------- program constants
OtpTtlMs == 600000
OtpBase == 100000
OtpSpan == 900000
DefaultMaxDevices == 1

Procs == 1..NumProcs
Null == "null"

Emails == {"a@x.io", "b@x.io"}
\* Google accounts that sign in: the two above and one with no User row.
GoogleEmails == Emails \cup {"c@x.io"}
Phones == {"+15551234567"}
Providers == {"google", "email-otp", "phone-otp"}

\* Decimal digits of a non-negative integer, most significant first:
\* Number.prototype.toString().
RECURSIVE ToString(_)
ToString(n) == IF n < 10 THEN <<n>> ELSE Append(ToString(n \div 10), n % 10)

\* Math.floor(100000 + Math.random() * 900000) for Math.random() = n / d, 0 <= n < d.
FloorCode(n, d) == OtpBase + ((n * OtpSpan) \div d)

\* Mutant of GenerateCode: Math.floor(Math.random() * 1000000).
GenerateCode_FromZero(k) == (k * 1000000) \div RandSteps

\* Math.floor(100000 + Math.random() * 900000) for Math.random() = k / RandSteps.
GenerateCode(k) == FloorCode(k, RandSteps)

IssuedCodes == {ToString(GenerateCode(k)) : k \in 0..(RandSteps - 1)}
\* What a client can type into the otp field: six digits (those of some issued
\* code, not necessarily one issued to this client) or nothing.
OtpInputs == IssuedCodes \cup {<<>>}

\* ------------------------------------------------------------------- state
VARIABLES
    users,            \* User table, id = index
    otps,             \* OTPVerification table, id = index
    deviceSessions,   \* DeviceSession table
    pendingSessions,  \* PendingDeviceSession table
    auditLog,         \* AuditLog table
    now,              \* the clock read by new Date() / Date.now()
    pc,               \* per request: the await it is suspended at
    loc,              \* per request: the handler's parameters and locals
    ret,              \* per request: what the handler returned
    consumed          \* history: the credentials authorize has returned a user for

vars == <<users, otps, deviceSessions, pendingSessions, auditLog, now, pc, loc, ret,
          consumed>>

dbVars == <<users, otps, deviceSessions, pendingSessions, auditLog>>

NoTenant == [hasTenant |-> FALSE, hasPlan |-> FALSE, maxDevices |-> 0]
NoPlan == [hasTenant |-> TRUE, hasPlan |-> FALSE, maxDevices |-> 0]
PlanOf(k) == [hasTenant |-> TRUE, hasPlan |-> TRUE, maxDevices |-> k]

NoLoc == [kind |-> Null, ident |-> "", otp |-> <<>>, rec |-> 0, at |-> 0, late |-> FALSE,
          user |-> 0, fp |-> 0, activeDevices |-> 0, maxDevices |-> 0,
          url |-> <<>>, baseUrl |-> <<>>, threw |-> Null,
          provider |-> Null, isNewUser |-> FALSE, stale |-> FALSE]
NoRet == [tag |-> "none", id |-> 0, url |-> <<>>]

RetNull == [tag |-> "null", id |-> 0, url |-> <<>>]
RetUser(id) == [tag |-> "user", id |-> id, url |-> <<>>]
RetTrue == [tag |-> "true", id |-> 0, url |-> <<>>]
RetFalse == [tag |-> "false", id |-> 0, url |-> <<>>]
RetUrl(u) == [tag |-> "url", id |-> 0, url |-> u]
RetThrow == [tag |-> "throw", id |-> 0, url |-> <<>>]
RetVoid == [tag |-> "void", id |-> 0, url |-> <<>>]

\* What the catch blocks return: catch (error) { ...; return null } of the two
\* authorize functions, return false of callbacks.signIn and of the two send
\* functions.  The events have no catch: an error there rejects the event.
\* Mutant of AuthorizeCatch: the error is rethrown.
AuthorizeCatch_Rethrow == RetThrow
AuthorizeCatch == RetNull
\* Mutant of SignInCatch: the catch lets the sign-in through.
SignInCatch_Admit == RetTrue
SignInCatch == RetFalse
\* Mutant of SendCatch: the error is logged and success reported.
SendCatch_True == RetTrue
SendCatch == RetFalse

Idle(p) == pc[p] = "idle"
InFlight(pcs) == Cardinality({q \in Procs : pc[q] \in pcs})

\* A handler leaves the slot with its result.
Finish(p, r) ==
    /\ pc' = [pc EXCEPT ![p] = "done"]
    /\ ret' = [ret EXCEPT ![p] = r]

\* The request is over: the slot is free for the next one.
Return(p) ==
    /\ pc[p] = "done"
    /\ pc' = [pc EXCEPT ![p] = "idle"]
    /\ loc' = [loc EXCEPT ![p] = NoLoc]
    /\ ret' = [ret EXCEPT ![p] = NoRet]
    /\ UNCHANGED <<dbVars, now, consumed>>

\* Time passes between any two steps.
Tick ==
    /\ now < MaxTicks * TickMs
    /\ now' = now + TickMs
    /\ UNCHANGED <<dbVars, pc, loc, ret, consumed>>

\* ------------------------------------------------------------ OTP dispatch
OtpRow(email, phone, code, type, expiresAt) ==
    [email |-> email, phone |-> phone, code |-> code, type |-> type,
     expiresAt |-> expiresAt, verified |-> FALSE]

\* sendEmailOTP: generate, store, (the mail itself is commented out), return true;
\* any error is caught and false is returned.
SendEmailOTP(p) ==
    /\ Idle(p)
    /\ Len(otps) + InFlight({"sms_send"}) < MaxOtps
    /\ \E email \in Emails, k \in 0..(RandSteps - 1) :
          LET code == ToString(GenerateCode(k))
              expiresAt == now + OtpTtlMs
          IN  \/ /\ otps' = Append(otps, OtpRow(email, Null, code, "EMAIL", expiresAt))
                 /\ loc' = [loc EXCEPT ![p] = [NoLoc EXCEPT !.kind = "sendEmailOTP",
                                                            !.rec = Len(otps) + 1]]
                 /\ Finish(p, RetTrue)
              \/ /\ UNCHANGED otps             \* oTPVerification.create threw
                 /\ loc' = [loc EXCEPT ![p] = [NoLoc EXCEPT !.kind = "sendEmailOTP",
                                                 !.threw = "oTPVerification.create"]]
                 /\ Finish(p, SendCatch)
    /\ UNCHANGED <<users, deviceSessions, pendingSessions, auditLog, now, consumed>>

\* sendSMSOTP up to its second await: generate and store.
SendSMSOTP(p) ==
    /\ Idle(p)
    /\ Len(otps) + InFlight({"sms_send"}) < MaxOtps
    /\ \E phone \in Phones, k \in 0..(RandSteps - 1) :
          LET code == ToString(GenerateCode(k))
              expiresAt == now + OtpTtlMs
          IN  \/ /\ otps' = Append(otps, OtpRow(Null, phone, code, "SMS", expiresAt))
                 /\ loc' = [loc EXCEPT ![p] = [NoLoc EXCEPT !.kind = "sendSMSOTP",
                                                            !.rec = Len(otps) + 1]]
                 /\ pc' = [pc EXCEPT ![p] = "sms_send"]
                 /\ UNCHANGED ret
              \/ /\ UNCHANGED otps             \* oTPVerification.create threw
                 /\ loc' = [loc EXCEPT ![p] = [NoLoc EXCEPT !.kind = "sendSMSOTP",
                                                 !.threw = "oTPVerification.create"]]
                 /\ Finish(p, SendCatch)
    /\ UNCHANGED <<users, deviceSessions, pendingSessions, auditLog, now, consumed>>

\* sendSMSOTP: twilioClient.messages.create, then return true; a Twilio error is
\* caught and false is returned.
SendSMSOTP_Twilio(p) ==
    /\ pc[p] = "sms_send"
    /\ \/ /\ Finish(p, RetTrue)
          /\ UNCHANGED loc
       \/ /\ Finish(p, SendCatch)              \* messages.create threw
          /\ loc' = [loc EXCEPT ![p].threw = "messages.create"]
    /\ UNCHANGED <<dbVars, now, consumed>>

\* ------------------------------------------------------- OTP authorization
\* Mutants of EmailOtpWhere: the verified filter left out; the expiry compared
\* with gte instead of gt.
EmailOtpWhere_IgnoreVerified(o, email, otp, date) ==
    /\ o.email = email
    /\ o.code = otp
    /\ o.type = "EMAIL"
    /\ o.expiresAt > date

EmailOtpWhere_ExpiryInclusive(o, email, otp, date) ==
    /\ o.email = email
    /\ o.code = otp
    /\ o.type = "EMAIL"
    /\ o.expiresAt >= date
    /\ o.verified = FALSE

\* Mutant of EmailOtpWhere: the email left out of the where clause.
EmailOtpWhere_AnyEmail(o, email, otp, date) ==
    /\ o.code = otp
    /\ o.type = "EMAIL"
    /\ o.expiresAt > date
    /\ o.verified = FALSE

\* The where clause of oTPVerification.findFirst in the email-otp provider.
EmailOtpWhere(o, email, otp, date) ==
    /\ o.email = email
    /\ o.code = otp
    /\ o.type = "EMAIL"
    /\ o.expiresAt > date
    /\ o.verified = FALSE

\* The where clause of oTPVerification.findFirst in the phone-otp provider.
PhoneOtpWhere(o, phone, otp, date) ==
    /\ o.phone = phone
    /\ o.code = otp
    /\ o.type = "SMS"
    /\ o.expiresAt > date
    /\ o.verified = FALSE

OtpWhere(kind, o, ident, otp, date) ==
    IF kind = "email-otp" THEN EmailOtpWhere(o, ident, otp, date)
                          ELSE PhoneOtpWhere(o, ident, otp, date)

\* The rows findFirst may return (no orderBy: any matching row).
FindFirstOtp(kind, ident, otp, date) ==
    {i \in 1..Len(otps) : OtpWhere(kind, otps[i], ident, otp, date)}

\* user.findUnique({ where: { email } }) / ({ where: { phone } }): the id, 0 for null.
FindUniqueUser(field, value) ==
    LET hit == {i \in 1..Len(users) :
                   IF field = "email" THEN users[i].email = value
                                      ELSE users[i].phone = value}
    IN  IF hit = {} THEN 0 ELSE CHOOSE i \in hit : TRUE

IdentField(kind) == IF kind = "email-otp" THEN "email" ELSE "phone"
IdentsOf(kind) == IF kind = "email-otp" THEN Emails ELSE Phones

\* The row user.create inserts for a first-time OTP sign-in.
NewOtpUser(kind, ident) ==
    IF kind = "email-otp"
    THEN [email |-> ident, phone |-> Null, tenant |-> NoTenant]
    ELSE [email |-> Null, phone |-> ident, tenant |-> NoTenant]

\* What a successful authorize call is remembered by: what was presented, and the
\* OTPVerification row it verified.
Credential(p) ==
    [kind |-> loc[p].kind, ident |-> loc[p].ident, otp |-> loc[p].otp, rec |-> loc[p].rec]

\* Some earlier authorize call returned a user for these credentials.
Consumed(kind, ident, otp) ==
    \E c \in consumed : c.kind = kind /\ c.ident = ident /\ c.otp = otp

AuthKinds == {"email-otp", "phone-otp"}

\* !credentials?.email || !credentials?.otp
MissingCredentials(ident, otp) == ident = "" \/ otp = <<>>

\* authorize, from the call to the result of findFirst.
Authorize(p) ==
    /\ Idle(p)
    /\ \E kind \in AuthKinds :
       \E ident \in IdentsOf(kind) \cup {""}, otp \in OtpInputs :
          LET mine == [NoLoc EXCEPT !.kind = kind, !.ident = ident, !.otp = otp,
                                    !.at = now, !.late = Consumed(kind, ident, otp)]
              found == FindFirstOtp(kind, ident, otp, now)
          IN  IF MissingCredentials(ident, otp)
              THEN /\ loc' = [loc EXCEPT ![p] = mine]
                   /\ Finish(p, RetNull)
              ELSE \/ /\ found # {}
                      /\ \E r \in found : loc' = [loc EXCEPT ![p] = [mine EXCEPT !.rec = r]]
                      /\ pc' = [pc EXCEPT ![p] = "otp_update"]
                      /\ UNCHANGED ret
                   \/ /\ found = {}            \* if (!otpRecord) return null
                      /\ loc' = [loc EXCEPT ![p] = mine]
                      /\ Finish(p, RetNull)
                   \/ /\ loc' = [loc EXCEPT ![p] =       \* findFirst threw
                                  [mine EXCEPT !.threw = "oTPVerification.findFirst"]]
                      /\ Finish(p, AuthorizeCatch)
    /\ UNCHANGED <<dbVars, now, consumed>>

\* Mutant of MarkVerified: updateMany on the identifier of the row instead of
\* update on its id.
MarkVerified_SameIdent(id) ==
    [i \in 1..Len(otps) |->
        IF otps[i].email = otps[id].email /\ otps[i].phone = otps[id].phone
        THEN [otps[i] EXCEPT !.verified = TRUE]
        ELSE otps[i]]

\* Mutant of MarkVerified: every row is marked, not the one with the id.
MarkVerified_All(id) == [i \in 1..Len(otps) |-> [otps[i] EXCEPT !.verified = TRUE]]

\* oTPVerification.update({ where: { id }, data: { verified: true } })
MarkVerified(id) == [otps EXCEPT ![id].verified = TRUE]

Authorize_Update(p) ==
    /\ pc[p] = "otp_update"
    /\ \/ /\ otps' = MarkVerified(loc[p].rec)
          /\ pc' = [pc EXCEPT ![p] = "otp_user"]
          /\ UNCHANGED <<ret, loc>>
       \/ /\ UNCHANGED otps                    \* update threw
          /\ loc' = [loc EXCEPT ![p].threw = "oTPVerification.update"]
          /\ Finish(p, AuthorizeCatch)
    /\ UNCHANGED <<users, deviceSessions, pendingSessions, auditLog, now, consumed>>

Authorize_FindUser(p) ==
    /\ pc[p] = "otp_user"
    /\ LET user == FindUniqueUser(IdentField(loc[p].kind), loc[p].ident)
       IN  \/ /\ user # 0
              /\ Finish(p, RetUser(user))
              /\ consumed' = consumed \cup {Credential(p)}
              /\ UNCHANGED loc
           \/ /\ user = 0
              /\ pc' = [pc EXCEPT ![p] = "otp_create"]
              /\ UNCHANGED <<ret, consumed, loc>>
           \/ /\ Finish(p, AuthorizeCatch)     \* findUnique threw
              /\ loc' = [loc EXCEPT ![p].threw = "user.findUnique"]
              /\ UNCHANGED consumed
    /\ UNCHANGED <<dbVars, now>>

\* User.email and User.phone are unique columns (findUnique is called on them): a
\* second row with the same value is rejected by the store.
\* Mutant of UniqueViolation: the columns carry no unique constraint.
UniqueViolation_None(kind, ident) == FALSE

UniqueViolation(kind, ident) == FindUniqueUser(IdentField(kind), ident) # 0

Authorize_Create(p) ==
    /\ pc[p] = "otp_create"
    /\ \/ /\ ~UniqueViolation(loc[p].kind, loc[p].ident)
          /\ users' = Append(users, NewOtpUser(loc[p].kind, loc[p].ident))
          /\ Finish(p, RetUser(Len(users) + 1))
          /\ consumed' = consumed \cup {Credential(p)}
          /\ UNCHANGED loc
       \/ /\ UNCHANGED <<users, consumed>>     \* user.create threw
          /\ loc' = [loc EXCEPT ![p].threw = "user.create"]
          /\ Finish(p, AuthorizeCatch)
    /\ UNCHANGED <<otps, deviceSessions, pendingSessions, auditLog, now>>

OtpStep(p) ==
    \/ SendEmailOTP(p)
    \/ SendSMSOTP(p)
    \/ SendSMSOTP_Twilio(p)
    \/ Authorize(p)
    \/ Authorize_Update(p)
    \/ Authorize_FindUser(p)
    \/ Authorize_Create(p)
    \/ Return(p)

\* ------------------------------------------------------------ initial state
\* The store before the first request: one registered user; b@x.io and
\* the phone number have never signed in.
InitOtp ==
    /\ users = <<[email |-> "a@x.io", phone |-> Null, tenant |-> NoTenant]>>
    /\ otps = <<>>
    /\ deviceSessions = <<>>
    /\ pendingSessions = <<>>
    /\ auditLog = <<>>
    /\ now = 0
    /\ pc = [p \in Procs |-> "idle"]
    /\ loc = [p \in Procs |-> NoLoc]
    /\ ret = [p \in Procs |-> NoRet]
    /\ consumed = {}

NextOtp == Tick \/ \E p \in Procs : OtpStep(p)

SpecOtp == InitOtp /\ [][NextOtp]_vars

\* One request at a time: every request runs in slot 1, the next one after the
\* previous one has returned.
NextOtpSeq ==
    \/ Tick
    \/ SendEmailOTP(1)
    \/ SendSMSOTP(1)
    \/ SendSMSOTP_Twilio(1)
    \/ Authorize(1)
    \/ Authorize_Update(1)
    \/ Authorize_FindUser(1)
    \/ Authorize_Create(1)
    \/ Return(1)

SpecOtpSeq == InitOtp /\ [][NextOtpSeq]_vars

\* ------------------------------------------------- session admission gate
DeviceLimitPath == <<"/", "auth", "/", "device-limit-exceeded">>

\* generateDeviceFingerprint: randomBytes(16).toString('hex'), here one of
\* NumFingerprints values.
Fingerprints == 1..NumFingerprints

\* Mutant of CountActive: active left out of the where clause.
CountActive_AnyState(sessions, userId) ==
    Cardinality({i \in 1..Len(sessions) : sessions[i].userId = userId})

\* deviceSession.count({ where: { userId, active: true } })
CountActive(sessions, userId) ==
    Cardinality({i \in 1..Len(sessions) : sessions[i].userId = userId /\ sessions[i].active})

\* Mutant of MaxDevicesOf: no fallback when the plan is missing.
MaxDevicesOf_NoDefault(user) ==
    IF user.tenant.hasTenant /\ user.tenant.hasPlan THEN user.tenant.maxDevices ELSE 0

\* existingUser.tenant?.plan?.maxDevices || 1
MaxDevicesOf(user) ==
    IF user.tenant.hasTenant /\ user.tenant.hasPlan /\ user.tenant.maxDevices # 0
    THEN user.tenant.maxDevices
    ELSE DefaultMaxDevices

\* Mutant of LimitReached: > instead of >=.
LimitReached_OffByOne(activeDevices, maxDevices) == activeDevices > maxDevices

\* if (activeDevices >= maxDevices): defer.
LimitReached(activeDevices, maxDevices) == activeDevices >= maxDevices

\* account?.provider === 'google'
IsGated(provider) == provider = "google"

PendingRow(userId, fingerprint) ==
    [userId |-> userId, fingerprint |-> fingerprint, deviceType |-> "WEB",
     userAgent |-> "Unknown", ipAddress |-> "0.0.0.0"]

\* Mutant of SessionRow: active left to its column default.
SessionRow_Inactive(userId, fingerprint, date) ==
    [userId |-> userId, fingerprint |-> fingerprint, deviceType |-> "WEB",
     userAgent |-> "Unknown", ipAddress |-> "0.0.0.0", active |-> FALSE, lastSeen |-> date]

SessionRow(userId, fingerprint, date) ==
    [userId |-> userId, fingerprint |-> fingerprint, deviceType |-> "WEB",
     userAgent |-> "Unknown", ipAddress |-> "0.0.0.0", active |-> TRUE, lastSeen |-> date]

GatePcs == {"gate_count", "gate_pending", "gate_create"}

\* callbacks.signIn, from the call to the result of user.findUnique.
SignIn(p) ==
    /\ Idle(p)
    /\ \E provider \in Providers, email \in GoogleEmails, fp \in Fingerprints :
          LET existingUser == FindUniqueUser("email", email)
              mine == [NoLoc EXCEPT !.kind = provider, !.fp = fp]
          IN  IF ~IsGated(provider)
              THEN /\ loc' = [loc EXCEPT ![p] = mine]
                   /\ Finish(p, RetTrue)
              ELSE \/ /\ existingUser # 0
                      /\ Len(deviceSessions) + Len(pendingSessions) + InFlight(GatePcs)
                            < MaxGateRows
                      /\ loc' = [loc EXCEPT ![p] = [mine EXCEPT !.ident = email,
                                                                !.user = existingUser]]
                      /\ pc' = [pc EXCEPT ![p] = "gate_count"]
                      /\ UNCHANGED ret
                   \/ /\ existingUser = 0      \* not (yet) a User row: nothing to gate
                      /\ loc' = [loc EXCEPT ![p] = [mine EXCEPT !.ident = email]]
                      /\ Finish(p, RetTrue)
                   \/ /\ loc' = [loc EXCEPT ![p] =       \* findUnique threw
                                  [mine EXCEPT !.ident = email, !.threw = "user.findUnique"]]
                      /\ Finish(p, SignInCatch)
    /\ UNCHANGED <<dbVars, now, consumed>>

\* deviceSession.count, then the comparison with the plan's limit.
SignIn_Count(p) ==
    /\ pc[p] = "gate_count"
    /\ LET activeDevices == CountActive(deviceSessions, loc[p].user)
           maxDevices == MaxDevicesOf(users[loc[p].user])
       IN  \/ /\ loc' = [loc EXCEPT ![p].activeDevices = activeDevices,
                                    ![p].maxDevices = maxDevices]
              /\ pc' = [pc EXCEPT ![p] = IF LimitReached(activeDevices, maxDevices)
                                         THEN "gate_pending" ELSE "gate_create"]
              /\ UNCHANGED ret
           \/ /\ Finish(p, SignInCatch)        \* count threw
              /\ loc' = [loc EXCEPT ![p].threw = "deviceSession.count"]
    /\ UNCHANGED <<dbVars, now, consumed>>

\* pendingDeviceSession.create, then return '/auth/device-limit-exceeded'.
SignIn_Defer(p) ==
    /\ pc[p] = "gate_pending"
    /\ \/ /\ pendingSessions' = Append(pendingSessions, PendingRow(loc[p].user, loc[p].fp))
          /\ Finish(p, RetUrl(DeviceLimitPath))
          /\ UNCHANGED loc
       \/ /\ UNCHANGED pendingSessions         \* create threw
          /\ loc' = [loc EXCEPT ![p].threw = "pendingDeviceSession.create"]
          /\ Finish(p, SignInCatch)
    /\ UNCHANGED <<users, otps, deviceSessions, auditLog, now, consumed>>

\* deviceSession.create, then return true.
SignIn_Admit(p) ==
    /\ pc[p] = "gate_create"
    /\ \/ /\ deviceSessions' = Append(deviceSessions, SessionRow(loc[p].user, loc[p].fp, now))
          /\ Finish(p, RetTrue)
          /\ UNCHANGED loc
       \/ /\ UNCHANGED deviceSessions          \* create threw
          /\ loc' = [loc EXCEPT ![p].threw = "deviceSession.create"]
          /\ Finish(p, SignInCatch)
    /\ UNCHANGED <<users, otps, pendingSessions, auditLog, now, consumed>>

\* ------------------------------------------------------------ events.signOut
\* deviceSession.updateMany({ where: { userId, active: true },
\*                            data: { active: false, lastSeen } })
\* Mutant of Deactivate: deleteMany instead of updateMany.
Deactivate_Delete(sessions, userId, date) ==
    SelectSeq(sessions, LAMBDA r : ~(r.userId = userId /\ r.active))

\* Mutant of Deactivate: active left out of the where clause and the flag flipped
\* instead of cleared.
Deactivate_Toggle(sessions, userId, date) ==
    [i \in 1..Len(sessions) |->
        IF sessions[i].userId = userId
        THEN [sessions[i] EXCEPT !.active = ~sessions[i].active, !.lastSeen = date]
        ELSE sessions[i]]

\* Mutant of Deactivate: userId left out of the where clause.
Deactivate_AllUsers(sessions, userId, date) ==
    [i \in 1..Len(sessions) |->
        IF sessions[i].active
        THEN [sessions[i] EXCEPT !.active = FALSE, !.lastSeen = date]
        ELSE sessions[i]]

Deactivate(sessions, userId, date) ==
    [i \in 1..Len(sessions) |->
        IF sessions[i].userId = userId /\ sessions[i].active
        THEN [sessions[i] EXCEPT !.active = FALSE, !.lastSeen = date]
        ELSE sessions[i]]

TenantIdOf(user) == IF user.tenant.hasTenant THEN "tenant" ELSE Null

AuditRow(userId, tenantId, action, metadata) ==
    [userId |-> userId, tenantId |-> tenantId, action |-> action, metadata |-> metadata]

\* Mutant of SignInMetadata: the new-user flag not passed on.
SignInMetadata_NoFlag(provider, isNewUser, date) ==
    [provider |-> provider, isNewUser |-> FALSE, timestamp |-> date]

\* metadata: { provider: account?.provider, isNewUser, timestamp } of USER_SIGNIN
SignInMetadata(provider, isNewUser, date) ==
    [provider |-> provider, isNewUser |-> isNewUser, timestamp |-> date]

\* metadata: { timestamp } of USER_SIGNOUT
SignOutMetadata(date) == [timestamp |-> date]

\* History: sign-in q of the user has its count behind it and its write ahead
\* (loc[q].stale records that a sign-out took effect in between).
CountedBefore(q, userId) ==
    pc[q] \in {"gate_pending", "gate_create"} /\ loc[q].user = userId

\* events.signOut up to its second await; token.sub is a user id or missing (0).
SignOut(p) ==
    /\ Idle(p)
    /\ \E sub \in 0..Len(users) :
          IF sub = 0
          THEN /\ loc' = [loc EXCEPT ![p] = [NoLoc EXCEPT !.kind = "signOut"]]
               /\ Finish(p, RetVoid)
               /\ UNCHANGED deviceSessions
          ELSE /\ Len(auditLog) + InFlight({"out_audit"}) < MaxAudit
               /\ \/ /\ deviceSessions' = Deactivate(deviceSessions, sub, now)
                     /\ loc' = [q \in Procs |->
                                  IF q = p
                                  THEN [NoLoc EXCEPT !.kind = "signOut", !.user = sub]
                                  ELSE IF CountedBefore(q, sub)
                                  THEN [loc[q] EXCEPT !.stale = TRUE]
                                  ELSE loc[q]]
                     /\ pc' = [pc EXCEPT ![p] = "out_audit"]
                     /\ UNCHANGED ret
                  \/ /\ UNCHANGED deviceSessions   \* updateMany threw: the event rejects
                     /\ loc' = [loc EXCEPT ![p] = [NoLoc EXCEPT !.kind = "signOut",
                                     !.user = sub, !.threw = "deviceSession.updateMany"]]
                     /\ Finish(p, RetThrow)
    /\ UNCHANGED <<users, otps, pendingSessions, auditLog, now, consumed>>

\* auditLog.create({ action: 'USER_SIGNOUT' })
SignOut_Audit(p) ==
    /\ pc[p] = "out_audit"
    /\ \/ /\ auditLog' = Append(auditLog, AuditRow(loc[p].user,
                                    TenantIdOf(users[loc[p].user]), "USER_SIGNOUT",
                                    SignOutMetadata(now)))
          /\ Finish(p, RetVoid)
          /\ UNCHANGED loc
       \/ /\ UNCHANGED auditLog                \* create threw: the event rejects
          /\ loc' = [loc EXCEPT ![p].threw = "auditLog.create"]
          /\ Finish(p, RetThrow)
    /\ UNCHANGED <<users, otps, deviceSessions, pendingSessions, now, consumed>>

\* ------------------------------------------------------------- events.signIn
\* if (user.id) await auditLog.create({ action: 'USER_SIGNIN' }); user.id is a
\* user id or missing (0).  There is no try: an error rejects the event.
SignInEvent(p) ==
    /\ Idle(p)
    /\ \E id \in 0..Len(users), provider \in Providers, isNewUser \in BOOLEAN :
          LET mine == [NoLoc EXCEPT !.kind = "signInEvent", !.user = id,
                                    !.provider = provider, !.isNewUser = isNewUser]
          IN  IF id = 0
              THEN /\ loc' = [loc EXCEPT ![p] = mine]
                   /\ Finish(p, RetVoid)
                   /\ UNCHANGED auditLog
              ELSE /\ Len(auditLog) + InFlight({"out_audit"}) < MaxAudit
                   /\ \/ /\ auditLog' = Append(auditLog,
                                  AuditRow(id, TenantIdOf(users[id]), "USER_SIGNIN",
                                           SignInMetadata(provider, isNewUser, now)))
                         /\ loc' = [loc EXCEPT ![p] = mine]
                         /\ Finish(p, RetVoid)
                      \/ /\ UNCHANGED auditLog   \* create threw: the event rejects
                         /\ loc' = [loc EXCEPT ![p] =
                                     [mine EXCEPT !.threw = "auditLog.create"]]
                         /\ Finish(p, RetThrow)
    /\ UNCHANGED <<users, otps, deviceSessions, pendingSessions, now, consumed>>

\* -------------------------------------------------------- callbacks.redirect
\* Strings are sequences of tokens: an origin (scheme and host), "/", or a path
\* segment.  Concatenation is \o.
Origins == {"https://app.example", "https://evil.example"}
UrlTokens == Origins \cup {"/", "auth", "dashboard", "device-limit-exceeded"}
\* The urls the callback is called with: every short string, and the path that
\* callbacks.signIn returns.
Urls == UNION {[1..n -> UrlTokens] : n \in 0..MaxUrlLen} \cup {DeviceLimitPath}
BaseUrls == {<<o>> : o \in Origins}

\* url.includes('device-limit-exceeded')
Includes(url, needle) == \E i \in 1..Len(url) : url[i] = needle

\* url.startsWith('/')
StartsWith(url, prefix) == Len(url) >= 1 /\ url[1] = prefix

\* new URL(url) throws unless url is absolute (begins with scheme and host).
IsAbsolute(url) == Len(url) >= 1 /\ url[1] \in Origins

\* new URL(url).origin: scheme and host, which end at the first "/"; a segment
\* written straight after the host is part of the host.
OriginOf(url) ==
    IF Len(url) >= 2 /\ url[2] # "/" THEN SubSeq(url, 1, 2) ELSE SubSeq(url, 1, 1)

Thrown == <<"TypeError">>

\* Mutant of Redirect: url.startsWith(baseUrl) instead of the comparison of
\* origins.
Redirect_StartsWithBase(url, baseUrl) ==
    IF Includes(url, "device-limit-exceeded")
    THEN baseUrl \o DeviceLimitPath
    ELSE IF url = baseUrl
    THEN baseUrl \o <<"/", "dashboard">>
    ELSE IF StartsWith(url, "/")
    THEN baseUrl \o url
    ELSE IF Len(url) >= Len(baseUrl) /\ SubSeq(url, 1, Len(baseUrl)) = baseUrl
    THEN url
    ELSE baseUrl

\* Mutant of Redirect: the relative-url branch tested before the
\* device-limit-exceeded branch.
Redirect_RelativeFirst(url, baseUrl) ==
    IF StartsWith(url, "/")
    THEN baseUrl \o url
    ELSE IF Includes(url, "device-limit-exceeded")
    THEN baseUrl \o DeviceLimitPath
    ELSE IF url = baseUrl
    THEN baseUrl \o <<"/", "dashboard">>
    ELSE IF ~IsAbsolute(url)
    THEN Thrown
    ELSE IF OriginOf(url) = baseUrl
    THEN url
    ELSE baseUrl

Redirect(url, baseUrl) ==
    IF Includes(url, "device-limit-exceeded")
    THEN baseUrl \o DeviceLimitPath
    ELSE IF url = baseUrl
    THEN baseUrl \o <<"/", "dashboard">>
    ELSE IF StartsWith(url, "/")
    THEN baseUrl \o url
    ELSE IF ~IsAbsolute(url)
    THEN Thrown
    ELSE IF OriginOf(url) = baseUrl
    THEN url
    ELSE baseUrl

RedirectCall(p) ==
    /\ Idle(p)
    /\ \E url \in Urls, baseUrl \in BaseUrls :
          /\ loc' = [loc EXCEPT ![p] = [NoLoc EXCEPT !.kind = "redirect", !.url = url,
                                                     !.baseUrl = baseUrl]]
          /\ Finish(p, IF Redirect(url, baseUrl) = Thrown THEN RetThrow
                       ELSE RetUrl(Redirect(url, baseUrl)))
    /\ UNCHANGED <<dbVars, now, consumed>>

GateStep(p) ==
    \/ SignIn(p)
    \/ SignIn_Count(p)
    \/ SignIn_Defer(p)
    \/ SignIn_Admit(p)
    \/ SignOut(p)
    \/ SignOut_Audit(p)
    \/ Return(p)

\* The store before the first sign-in: a@x.io belongs to a tenant (with or without
\* a plan), b@x.io to none; nobody is signed in.
InitGate ==
    /\ users \in {<<[email |-> "a@x.io", phone |-> Null, tenant |-> t],
                    [email |-> "b@x.io", phone |-> Null, tenant |-> NoTenant]>> :
                     t \in {NoPlan} \cup {PlanOf(k) : k \in 1..MaxPlanDevices}}
    /\ otps = <<>>
    /\ deviceSessions = <<>>
    /\ pendingSessions = <<>>
    /\ auditLog = <<>>
    /\ now = 0
    /\ pc = [p \in Procs |-> "idle"]
    /\ loc = [p \in Procs |-> NoLoc]
    /\ ret = [p \in Procs |-> NoRet]
    /\ consumed = {}

NextGate == \E p \in Procs : GateStep(p)

\* Requests that arrive while others are in flight.
SpecGate == InitGate /\ [][NextGate]_vars

\* One request at a time, as in NextOtpSeq.
NextGateSeq ==
    \/ SignIn(1)
    \/ SignIn_Count(1)
    \/ SignIn_Defer(1)
    \/ SignIn_Admit(1)
    \/ SignOut(1)
    \/ SignOut_Audit(1)
    \/ Return(1)

SpecGateSeq == InitGate /\ [][NextGateSeq]_vars

\* One request at a time, sign-ins and the redirects that follow them.
NextSignInRedirect ==
    \/ SignIn(1)
    \/ SignIn_Count(1)
    \/ SignIn_Defer(1)
    \/ SignIn_Admit(1)
    \/ RedirectCall(1)
    \/ Return(1)

SpecSignInRedirect == InitGate /\ [][NextSignInRedirect]_vars

\* One request at a time: sign-ins, and the two events that follow a sign-in and
\* a sign-out.
NextEvents ==
    \/ SignIn(1)
    \/ SignIn_Count(1)
    \/ SignIn_Defer(1)
    \/ SignIn_Admit(1)
    \/ SignInEvent(1)
    \/ SignOut(1)
    \/ SignOut_Audit(1)
    \/ Return(1)

SpecEvents == InitGate /\ [][NextEvents]_vars

\* One request at a time, every handler that writes to the User or DeviceSession
\* table: OTP dispatch and authorization, sign-in, sign-out.  The store starts as
\* in InitOtp, so users appear by OTP authorization and can then sign in.
NextLifecycle ==
    \/ SendEmailOTP(1)
    \/ SendSMSOTP(1)
    \/ SendSMSOTP_Twilio(1)
    \/ Authorize(1)
    \/ Authorize_Update(1)
    \/ Authorize_FindUser(1)
    \/ Authorize_Create(1)
    \/ SignIn(1)
    \/ SignIn_Count(1)
    \/ SignIn_Defer(1)
    \/ SignIn_Admit(1)
    \/ SignOut(1)
    \/ SignOut_Audit(1)
    \/ Return(1)

SpecLifecycle == InitOtp /\ [][NextLifecycle]_vars

\* ======================================================================
\* Properties
\* ======================================================================
ActiveOf(userId) == CountActive(deviceSessions, userId)
RowsOf(table, userId) == Cardinality({i \in 1..Len(table) : table[i].userId = userId})
InactiveOf(userId) ==
    Cardinality({i \in 1..Len(deviceSessions) :
                    deviceSessions[i].userId = userId /\ ~deviceSessions[i].active})
GateRunning(userId) == \E p \in Procs : pc[p] \in GatePcs /\ loc[p].user = userId
IsAuthorize(p) == loc[p].kind \in AuthKinds
IsGoogleSignIn(p) == loc[p].kind = "google"
\* The row carries the identifier, code and channel of the credentials in l.
PresentedBy(l, o) ==
    /\ o.code = l.otp
    /\ IF l.kind = "email-otp" THEN o.type = "EMAIL" /\ o.email = l.ident
                               ELSE o.type = "SMS" /\ o.phone = l.ident
\* The row carries the identifier, code and channel that request p presented.
Presented(p, o) == PresentedBy(loc[p], o)

\* C1: in every reachable state every user has at most maxDevices active
\* DeviceSession rows, whatever the interleaving of signIn callbacks and signOut
\* events.  (Stated as the claim states it; the code breaks it.)
C1_ActiveWithinLimit ==
    \A u \in 1..Len(users) : ActiveOf(u) <= MaxDevicesOf(users[u])

\* C2: with no sign-out having taken effect for the user, once N > k sign-in
\* attempts of a user with maxDevices = k have all been decided, exactly k were
\* admitted (DeviceSession rows) and N - k deferred (PendingDeviceSession rows).
\* (Stated as the claim states it; the code breaks it.)
C2_ExactlyKAdmitted ==
    \A u \in 1..Len(users) :
        LET k == MaxDevicesOf(users[u])
            admitted == RowsOf(deviceSessions, u)
            deferred == RowsOf(pendingSessions, u)
        IN  (InactiveOf(u) = 0 /\ ~GateRunning(u) /\ admitted + deferred > k)
                => (admitted = k /\ deferred = admitted + deferred - k)

\* C3: an OTPVerification row is consumed at most once: no two authorize calls
\* return a user for the same row.  (Stated as the claim states it; the code
\* breaks it.)
C3_SingleWinner ==
    \A p, q \in Procs :
        (p # q /\ IsAuthorize(p) /\ IsAuthorize(q)
              /\ ret[p].tag = "user" /\ ret[q].tag = "user")
            => loc[p].rec # loc[q].rec

\* C4 as stated: once an authorize call has returned a user for an identifier
\* and a code, every authorize call that starts later with the same identifier
\* and code returns null.
C4_LaterCallReturnsNull ==
    \A p \in Procs : (IsAuthorize(p) /\ loc[p].late) => (pc[p] = "done" /\ ret[p] = RetNull)

\* C4 as amended: an authorize call that starts after a successful one with the
\* same identifier and code never selects a row a successful call has verified;
\* it returns null unless some other row with that identifier, code and channel is
\* still unverified and unexpired; and it never creates a User.
C4_VerifiedRowNeverReused ==
    [][/\ \A p \in Procs :
            (Idle(p) /\ IsAuthorize(p)' /\ loc'[p].late) =>
                /\ (pc'[p] = "otp_update") => (loc'[p].rec \notin {c.rec : c \in consumed})
                /\ (~\E i \in 1..Len(otps) :
                        /\ PresentedBy(loc'[p], otps[i])
                        /\ ~otps[i].verified
                        /\ otps[i].expiresAt > now)
                      => (pc'[p] = "done" /\ ret'[p] = RetNull)
       /\ \A p \in Procs : loc'[p].late => pc'[p] # "otp_create"
      ]_vars

\* C4 witness: a later call with already used credentials has returned null.
C4_Witness ==
    \E p \in Procs :
        /\ IsAuthorize(p) /\ loc[p].late /\ pc[p] = "done" /\ ret[p] = RetNull
        /\ \E c \in consumed : c.ident = loc[p].ident /\ c.otp = loc[p].otp
                                 /\ otps[c.rec].verified

\* C5 as stated: an authorize call made at or after the expiresAt of a row with
\* the presented identifier and code returns null.
C5_ExpiredCallReturnsNull ==
    \A p \in Procs : \A i \in 1..Len(otps) :
        (IsAuthorize(p) /\ Presented(p, otps[i]) /\ otps[i].expiresAt <= loc[p].at)
            => (pc[p] = "done" /\ ret[p] = RetNull)

\* C5 as amended: the row an authorize call selects carries the presented
\* identifier, code and channel, is unverified and, at the time of the call, is
\* strictly before its expiresAt; a call made when every such row is at or past
\* its expiresAt (or verified) returns null and changes no row; and the update
\* that follows a selection changes only the selected row.
C5_AcceptedOnlyBeforeExpiry ==
    [][\A p \in Procs :
          /\ (Idle(p) /\ IsAuthorize(p)') =>
                /\ otps' = otps
                /\ loc'[p].at = now
                /\ (pc'[p] = "otp_update") =>
                      /\ loc'[p].rec \in 1..Len(otps)
                      /\ PresentedBy(loc'[p], otps[loc'[p].rec])
                      /\ ~otps[loc'[p].rec].verified
                      /\ now < otps[loc'[p].rec].expiresAt
                /\ (\A i \in 1..Len(otps) :
                        PresentedBy(loc'[p], otps[i]) =>
                            (otps[i].expiresAt <= now \/ otps[i].verified))
                      => (pc'[p] = "done" /\ ret'[p] = RetNull /\ loc'[p].rec = 0)
          /\ (pc[p] = "otp_update" /\ pc'[p] # "otp_update") =>
                \A i \in 1..Len(otps) : (i # loc[p].rec) => otps'[i] = otps[i]
          /\ (IsAuthorize(p) /\ pc[p] \in {"otp_user", "otp_create", "done"}) =>
                otps' = otps \/ \E q \in Procs \ {p} : pc'[q] # pc[q]
      ]_vars

\* C5 witness: a call with the correct identifier and code of an unverified row,
\* made exactly at its expiresAt, has returned null.
C5_Witness ==
    \E p \in Procs : \E i \in 1..Len(otps) :
        /\ IsAuthorize(p) /\ pc[p] = "done" /\ ret[p] = RetNull
        /\ Presented(p, otps[i]) /\ ~otps[i].verified
        /\ otps[i].expiresAt = loc[p].at
        /\ \A j \in 1..Len(otps) : Presented(p, otps[j]) => otps[j].expiresAt <= loc[p].at

\* C6: one request at a time, a Google sign-in of an existing user whose active
\* count is below maxDevices goes to the create branch, and the create appends
\* exactly one DeviceSession, active, of that user, changes no other row, adds no
\* PendingDeviceSession and returns true: the active count grows by exactly one
\* and stays within the limit.
C6_AdmitCreatesOneActive ==
    [][\A p \in Procs :
          /\ (pc[p] = "gate_count" /\ pc'[p] \in {"gate_pending", "gate_create"}
                /\ ActiveOf(loc[p].user) < MaxDevicesOf(users[loc[p].user]))
               => pc'[p] = "gate_create"
          /\ (pc[p] = "gate_create" /\ ret'[p] = RetTrue) =>
               /\ Len(deviceSessions') = Len(deviceSessions) + 1
               /\ SubSeq(deviceSessions', 1, Len(deviceSessions)) = deviceSessions
               /\ deviceSessions'[Len(deviceSessions')].userId = loc[p].user
               /\ deviceSessions'[Len(deviceSessions')].active
               /\ pendingSessions' = pendingSessions
               /\ ActiveOf(loc[p].user)' = ActiveOf(loc[p].user) + 1
               /\ ActiveOf(loc[p].user) = loc[p].activeDevices
               /\ ActiveOf(loc[p].user)' <= MaxDevicesOf(users[loc[p].user])
      ]_vars

\* C6 witness: a user with maxDevices = 2 and one active session has signed in
\* from a second device and now has two.
C6_Witness ==
    \E p \in Procs :
        /\ IsGoogleSignIn(p) /\ pc[p] = "done" /\ ret[p] = RetTrue /\ loc[p].user # 0
        /\ loc[p].activeDevices = 1 /\ loc[p].maxDevices = 2
        /\ ActiveOf(loc[p].user) = 2

\* C7: a gate that counts maxDevices or more active sessions goes to the defer
\* branch, and the defer appends one PendingDeviceSession of that user and leaves
\* the DeviceSession table (rows and active flags) as it was.
C7_DeferLeavesSessions ==
    [][\A p \in Procs :
          /\ (pc[p] = "gate_count" /\ pc'[p] \in {"gate_pending", "gate_create"}
                /\ ActiveOf(loc[p].user) >= MaxDevicesOf(users[loc[p].user]))
               => pc'[p] = "gate_pending"
          /\ (pc[p] = "gate_pending" /\ ret'[p].tag = "url") =>
               /\ Len(pendingSessions') = Len(pendingSessions) + 1
               /\ SubSeq(pendingSessions', 1, Len(pendingSessions)) = pendingSessions
               /\ pendingSessions'[Len(pendingSessions')].userId = loc[p].user
               /\ pendingSessions'[Len(pendingSessions')].fingerprint = loc[p].fp
               /\ deviceSessions' = deviceSessions
               /\ loc[p].activeDevices >= loc[p].maxDevices
      ]_vars

\* C7 witness: a sign-in was deferred while the user was at the limit; the
\* pending row is there and the active count is still the limit.
C7_Witness ==
    \E p \in Procs :
        /\ IsGoogleSignIn(p) /\ pc[p] = "done" /\ ret[p].tag = "url"
        /\ RowsOf(pendingSessions, loc[p].user) >= 1
        /\ ActiveOf(loc[p].user) = loc[p].maxDevices
        /\ loc[p].activeDevices = loc[p].maxDevices

\* C8: a deferred sign-in returns the path /auth/device-limit-exceeded, and
\* callbacks.redirect maps every url that contains device-limit-exceeded to
\* baseUrl + /auth/device-limit-exceeded.
C8_DeferredGoesToLimitRoute ==
    /\ \A p \in Procs :
          (IsGoogleSignIn(p) /\ pc[p] = "done" /\ ret[p].tag \notin {"true", "false"})
              => /\ ret[p] = RetUrl(<<"/", "auth", "/", "device-limit-exceeded">>)
                 /\ loc[p].activeDevices >= loc[p].maxDevices
                 /\ RowsOf(pendingSessions, loc[p].user) >= 1
    /\ \A p \in Procs :
          (IsGoogleSignIn(p) /\ pc[p] = "done" /\ loc[p].maxDevices # 0
                /\ loc[p].activeDevices >= loc[p].maxDevices)
              => ret[p].tag \in {"url", "false"}
    /\ \A p \in Procs :
          (loc[p].kind = "redirect" /\ pc[p] = "done"
                /\ \E i \in 1..Len(loc[p].url) : loc[p].url[i] = "device-limit-exceeded")
              => ret[p] = RetUrl(loc[p].baseUrl
                                   \o <<"/", "auth", "/", "device-limit-exceeded">>)

\* C8 witness: after a deferral, redirect was called with a relative url that
\* contains device-limit-exceeded and answered with the limit-exceeded route.
C8_Witness ==
    /\ pendingSessions # <<>>
    /\ \E p \in Procs :
          /\ loc[p].kind = "redirect" /\ pc[p] = "done"
          /\ loc[p].url = <<"/", "device-limit-exceeded">>
          /\ ret[p].url = loc[p].baseUrl \o DeviceLimitPath

\* C9: whenever callbacks.signIn lets a sign-in complete (returns true), whatever
\* the provider, the gate has run for the user and this call has created an active
\* DeviceSession for the user.  (Stated as the claim states it; the code breaks
\* it.)
C9_EverySignInGated ==
    \A p \in Procs :
        (loc[p].kind \in Providers /\ pc[p] = "done" /\ ret[p] = RetTrue)
            => /\ loc[p].user # 0
               /\ loc[p].maxDevices # 0
               /\ \E i \in 1..Len(deviceSessions) :
                      /\ deviceSessions[i].userId = loc[p].user
                      /\ deviceSessions[i].fingerprint = loc[p].fp

\* C10: for a user without tenant, or whose tenant has no plan, the gate works
\* with a limit of exactly 1: one request at a time, it admits when the user has
\* no active session and defers when the user has one, so the user never has two.
C10_TenantlessLimitIsOne ==
    \A p \in Procs :
        (IsGoogleSignIn(p) /\ loc[p].user # 0
              /\ ~(users[loc[p].user].tenant.hasTenant /\ users[loc[p].user].tenant.hasPlan))
            => /\ (pc[p] \in {"gate_pending", "gate_create"}) => loc[p].maxDevices = 1
               /\ (pc[p] = "gate_create") => ActiveOf(loc[p].user) = 0
               /\ (pc[p] = "gate_pending") => ActiveOf(loc[p].user) = 1
               /\ (ret[p] = RetTrue) => loc[p].activeDevices = 0
               /\ (ret[p].tag = "url") => loc[p].activeDevices = 1
               /\ ActiveOf(loc[p].user) <= 1

\* C10 witness: a user without tenant who has one active session signed in again
\* and was deferred.
C10_Witness ==
    \E p \in Procs :
        /\ IsGoogleSignIn(p) /\ loc[p].user # 0
        /\ ~users[loc[p].user].tenant.hasTenant
        /\ pc[p] = "done" /\ ret[p] = RetUrl(DeviceLimitPath)
        /\ loc[p].activeDevices = 1 /\ ActiveOf(loc[p].user) = 1

\* C11: when a data-layer call of callbacks.signIn fails (user.findUnique with its
\* tenant and plan, deviceSession.count, pendingDeviceSession.create or
\* deviceSession.create), the callback returns false at that step, and the attempt
\* has created no DeviceSession: the failing step and the steps before it leave the
\* DeviceSession table as it was.  A callback that returned true had no failure.
C11_FailureDenies ==
    [][\A p \in Procs :
          /\ (IsGoogleSignIn(p)' /\ loc[p].threw = Null /\ loc'[p].threw # Null) =>
                /\ pc'[p] = "done"
                /\ ret'[p] = RetFalse
                /\ deviceSessions' = deviceSessions
                /\ pendingSessions' = pendingSessions
          /\ (IsGoogleSignIn(p)' /\ pc'[p] # pc[p]
                /\ pc[p] \in {"idle", "gate_count", "gate_pending"}) =>
                deviceSessions' = deviceSessions
          /\ (IsGoogleSignIn(p) /\ pc[p] = "done" /\ loc[p].threw # Null) =>
                ret[p] = RetFalse
          /\ (IsGoogleSignIn(p) /\ ret[p] = RetTrue) => loc[p].threw = Null
      ]_vars

\* C11 witness: deviceSession.count failed for a user with no active session and
\* room in the plan; the callback returned false and the user still has none.
C11_Witness ==
    \E p \in Procs :
        /\ IsGoogleSignIn(p) /\ pc[p] = "done" /\ ret[p] = RetFalse
        /\ loc[p].threw = "deviceSession.count"
        /\ loc[p].user # 0
        /\ RowsOf(deviceSessions, loc[p].user) = 0

\* C12: the updateMany of events.signOut for subject U leaves no DeviceSession of
\* U active, adds and removes no row, and leaves every row of every other user as
\* it was; the audit write that follows touches no DeviceSession; so, one request
\* at a time, when the event has completed no DeviceSession of U is active.
C12_SignOutDeactivatesAllOfUser ==
    [][\A p \in Procs :
          /\ (Idle(p) /\ pc'[p] = "out_audit") =>
                /\ CountActive(deviceSessions', loc'[p].user) = 0
                /\ Len(deviceSessions') = Len(deviceSessions)
                /\ \A i \in 1..Len(deviceSessions) :
                      /\ deviceSessions'[i].userId = deviceSessions[i].userId
                      /\ deviceSessions'[i].fingerprint = deviceSessions[i].fingerprint
                      /\ (deviceSessions[i].userId # loc'[p].user)
                            => deviceSessions'[i] = deviceSessions[i]
          /\ (pc[p] = "out_audit" /\ pc'[p] = "done") =>
                /\ deviceSessions' = deviceSessions
                /\ (ret'[p] = RetVoid) => ActiveOf(loc[p].user)' = 0
      ]_vars

\* C12 witness: a user with two active sessions has signed out; both are inactive
\* and the session of another user is still active.
C12_Witness ==
    \E p \in Procs :
        /\ loc[p].kind = "signOut" /\ pc[p] = "done" /\ ret[p] = RetVoid
        /\ InactiveOf(loc[p].user) = 2 /\ ActiveOf(loc[p].user) = 0
        /\ \E u \in 1..Len(users) : u # loc[p].user /\ ActiveOf(u) = 1

\* C13: sign-out closes one session: the updateMany of events.signOut takes at
\* most one of the user's active DeviceSessions away, so a user who had two keeps
\* the one of the other device.  (Stated as the claim states it; the code breaks
\* it.)
C13_SignOutClosesOneSession ==
    [][\A p \in Procs :
          (Idle(p) /\ pc'[p] = "out_audit") =>
              CountActive(deviceSessions', loc'[p].user)
                  >= CountActive(deviceSessions, loc'[p].user) - 1
      ]_vars

\* C14: a failure of auditLog.create never fails the operation: events.signIn and
\* events.signOut complete without raising an error, and for sign-out the
\* deactivation has taken effect.  (Stated as the claim states it; the code breaks
\* it.)
C14_AuditFailureSwallowed ==
    \A p \in Procs :
        (loc[p].kind \in {"signInEvent", "signOut"} /\ loc[p].threw = "auditLog.create")
            => /\ pc[p] = "done"
               /\ ret[p] = RetVoid
               /\ (loc[p].kind = "signOut") => ActiveOf(loc[p].user) = 0

\* C15: in every reachable state at most one User row carries a given email and
\* at most one a given phone, also while two first-time sign-ins for the same
\* identifier, each with its own valid OTP, run their findUnique and create steps
\* interleaved.
C15_OneUserPerIdentity ==
    \A i, j \in 1..Len(users) :
        (i # j) => /\ (users[i].email # Null) => users[i].email # users[j].email
                   /\ (users[i].phone # Null) => users[i].phone # users[j].phone

\* C15 witness: two sign-ins for one new identifier, each on its own OTP row, both
\* got past findUnique to user.create; one created the User, the other was
\* rejected by the store and returned null.
C15_Witness ==
    \E p, q \in Procs :
        /\ p # q /\ IsAuthorize(p) /\ IsAuthorize(q)
        /\ loc[p].kind = loc[q].kind /\ loc[p].ident = loc[q].ident
        /\ loc[p].rec # 0 /\ loc[q].rec # 0 /\ loc[p].rec # loc[q].rec
        /\ otps[loc[p].rec].verified /\ otps[loc[q].rec].verified
        /\ pc[p] = "done" /\ ret[p].tag = "user" /\ ret[p].id > 1
        /\ pc[q] = "done" /\ ret[q] = RetNull /\ loc[q].threw = "user.create"

\* C16: admission is idempotent per device: a user never has two active
\* DeviceSessions with the same fingerprint, so a retried sign-in of a device
\* takes no second slot.  (Stated as the claim states it; the code breaks it.)
C16_OneActivePerFingerprint ==
    \A i, j \in 1..Len(deviceSessions) :
        (i # j /\ deviceSessions[i].active /\ deviceSessions[j].active
               /\ deviceSessions[i].userId = deviceSessions[j].userId)
            => deviceSessions[i].fingerprint # deviceSessions[j].fingerprint

\* C17: a DeviceSession is created active and then becomes inactive for good: no
\* step turns a row's active flag from false to true, every row that appears is
\* active when it appears, and an admitted sign-in appends a new row and leaves
\* every existing row as it was.
C17_InactiveIsTerminal ==
    [][/\ Len(deviceSessions') >= Len(deviceSessions)
       /\ \A i \in 1..Len(deviceSessions) :
             ~deviceSessions[i].active => ~deviceSessions'[i].active
       /\ \A i \in (Len(deviceSessions) + 1)..Len(deviceSessions') :
             deviceSessions'[i].active
       /\ \A p \in Procs :
             (pc[p] = "gate_create" /\ ret'[p] = RetTrue) =>
                 /\ Len(deviceSessions') = Len(deviceSessions) + 1
                 /\ SubSeq(deviceSessions', 1, Len(deviceSessions)) = deviceSessions
      ]_vars

\* C17 witness: after a sign-out the same user signed in again with the same
\* fingerprint: the old row is still inactive and a newer row is active.
C17_Witness ==
    \E i, j \in 1..Len(deviceSessions) :
        /\ i < j
        /\ deviceSessions[i].userId = deviceSessions[j].userId
        /\ deviceSessions[i].fingerprint = deviceSessions[j].fingerprint
        /\ ~deviceSessions[i].active
        /\ deviceSessions[j].active

\* C18: no step deletes a User or a DeviceSession: in every step both tables keep
\* every row they had, in place (a User row unchanged, a DeviceSession row with
\* its userId and fingerprint), and only get longer.
C18_RowsOnlyGrow ==
    [][/\ Len(users') >= Len(users)
       /\ SubSeq(users', 1, Len(users)) = users
       /\ Len(deviceSessions') >= Len(deviceSessions)
       /\ \A i \in 1..Len(deviceSessions) :
             /\ deviceSessions'[i].userId = deviceSessions[i].userId
             /\ deviceSessions'[i].fingerprint = deviceSessions[i].fingerprint
      ]_vars

\* C18 witness: a user created by an OTP authorization has signed in and signed
\* out; the User row and the (inactive) DeviceSession row are both there, next to
\* the rows of the first user.
C18_Witness ==
    /\ Len(users) >= 2
    /\ \E i, j \in 1..Len(deviceSessions) :
          /\ deviceSessions[i].userId = 2 /\ ~deviceSessions[i].active
          /\ deviceSessions[j].userId = 1
    /\ \E p \in Procs : loc[p].kind = "signOut" /\ pc[p] = "done" /\ loc[p].user = 2

\* A sendSMSOTP call whose Twilio send failed, still holding its result, and the
\* OTPVerification row it had stored.
SmsSendFailed(p) ==
    /\ loc[p].kind = "sendSMSOTP" /\ pc[p] = "done"
    /\ loc[p].threw = "messages.create"

\* C19: when twilioClient.messages.create fails, sendSMSOTP returns false and
\* leaves the OTPVerification table as it was; the row it had stored stays as it
\* is until an authorize call verifies it; and an authorize call that presents
\* the row's phone and code while the row is unverified and before its expiresAt
\* is accepted (it goes on to verify a row) unless the data layer fails.
C19_FailedSendKeepsOtpUsable ==
    [][\A p \in Procs :
          /\ (pc[p] = "sms_send" /\ pc'[p] = "done") =>
                /\ otps' = otps
                /\ loc'[p].rec = loc[p].rec
                /\ (loc'[p].threw # Null) <=> (ret'[p] = RetFalse)
                /\ (loc'[p].threw = Null) <=> (ret'[p] = RetTrue)
          /\ SmsSendFailed(p) =>
                /\ ret[p] = RetFalse
                /\ loc[p].rec \in 1..Len(otps)
                /\ otps[loc[p].rec].phone \in Phones /\ otps[loc[p].rec].type = "SMS"
                /\ \/ otps'[loc[p].rec] = otps[loc[p].rec]
                   \/ /\ otps'[loc[p].rec] = [otps[loc[p].rec] EXCEPT !.verified = TRUE]
                      /\ \E q \in Procs : pc[q] = "otp_update" /\ pc'[q] = "otp_user"
                /\ \A q \in Procs :
                      (/\ Idle(q) /\ IsAuthorize(q)'
                       /\ PresentedBy(loc'[q], otps[loc[p].rec])
                       /\ ~otps[loc[p].rec].verified
                       /\ now < otps[loc[p].rec].expiresAt
                       /\ loc'[q].threw = Null)
                          => /\ pc'[q] = "otp_update"
                             /\ PresentedBy(loc'[q], otps[loc'[q].rec])
      ]_vars

\* C19 witness: the Twilio send failed and sendSMSOTP returned false; an
\* authorize call with the phone and the code of the stored row then returned a
\* user on that very row.
C19_Witness ==
    \E p, q \in Procs :
        /\ SmsSendFailed(p) /\ ret[p] = RetFalse
        /\ loc[q].kind = "phone-otp" /\ pc[q] = "done" /\ ret[q].tag = "user"
        /\ loc[q].rec = loc[p].rec
        /\ otps[loc[p].rec].verified

\* C20: authorize has two results only, a user or null, and every failure gives
\* the same null: a missing field, a code or identifier no row carries, rows that
\* are all expired or already verified, and an error of any data-layer call all
\* end the call with exactly RetNull.
C20_FailuresAllReturnNull ==
    [][\A p \in Procs :
          /\ (IsAuthorize(p) /\ pc[p] = "done") =>
                /\ ret[p] = RetNull \/ (ret[p].tag = "user" /\ ret[p].id \in 1..Len(users))
                /\ (loc[p].threw # Null) => ret[p] = RetNull
          /\ (IsAuthorize(p)' /\ pc'[p] = "done" /\ pc[p] # "done") =>
                \/ ret'[p] = RetNull
                \/ /\ ret'[p].tag = "user"
                   /\ loc'[p].threw = Null
                   /\ otps[loc'[p].rec].verified
          /\ (Idle(p) /\ IsAuthorize(p)') =>
                /\ MissingCredentials(loc'[p].ident, loc'[p].otp)
                      => (pc'[p] = "done" /\ ret'[p] = RetNull)
                /\ (\A i \in 1..Len(otps) : ~PresentedBy(loc'[p], otps[i]))
                      => (pc'[p] = "done" /\ ret'[p] = RetNull)
                /\ (\A i \in 1..Len(otps) :
                        PresentedBy(loc'[p], otps[i]) => otps[i].expiresAt <= now)
                      => (pc'[p] = "done" /\ ret'[p] = RetNull)
                /\ (\A i \in 1..Len(otps) :
                        PresentedBy(loc'[p], otps[i]) => otps[i].verified)
                      => (pc'[p] = "done" /\ ret'[p] = RetNull)
                /\ (loc'[p].threw # Null) => (pc'[p] = "done" /\ ret'[p] = RetNull)
      ]_vars

\* C20 witness: one call failed on a wrong code (the identifier has an unverified,
\* unexpired row with another code), another on a data-layer error after its code
\* had been found; both hold the same result.
C20_Witness ==
    \E p, q \in Procs :
        /\ p # q /\ IsAuthorize(p) /\ IsAuthorize(q)
        /\ pc[p] = "done" /\ pc[q] = "done"
        /\ loc[p].threw = Null /\ ~MissingCredentials(loc[p].ident, loc[p].otp)
        /\ \A i \in 1..Len(otps) : ~Presented(p, otps[i])
        /\ \E i \in 1..Len(otps) :
              /\ otps[i].email = loc[p].ident /\ otps[i].code # loc[p].otp
              /\ ~otps[i].verified /\ otps[i].expiresAt > loc[p].at
        /\ loc[q].threw = "user.findUnique" /\ loc[q].rec # 0
        /\ ret[p] = RetNull /\ ret[q] = ret[p]

\* C21: the row an authorize call selects has the channel type of the provider
\* (EMAIL for email-otp, SMS for phone-otp), the submitted identifier in the
\* column of that channel and the submitted code; and the user a call returns is
\* the user of the submitted identifier.  So a code issued for one identifier or
\* channel is not accepted for another.
C21_MatchOnIdentCodeType ==
    [][\A p \in Procs :
          /\ (Idle(p) /\ IsAuthorize(p)' /\ pc'[p] = "otp_update") =>
                LET o == otps[loc'[p].rec]
                IN  /\ o.code = loc'[p].otp
                    /\ (loc'[p].kind = "email-otp")
                          => (o.type = "EMAIL" /\ o.email = loc'[p].ident)
                    /\ (loc'[p].kind = "phone-otp")
                          => (o.type = "SMS" /\ o.phone = loc'[p].ident)
          /\ (IsAuthorize(p)' /\ pc[p] # "done" /\ pc'[p] = "done"
                /\ ret'[p].tag = "user") =>
                /\ (loc'[p].kind = "email-otp")
                      => users'[ret'[p].id].email = loc'[p].ident
                /\ (loc'[p].kind = "phone-otp")
                      => users'[ret'[p].id].phone = loc'[p].ident
      ]_vars

\* C21 witness: a call presented b@x.io with a code that only a row of a@x.io
\* carries (unverified, unexpired); no data-layer call failed and it returned
\* null.
C21_Witness ==
    \E p \in Procs :
        /\ loc[p].kind = "email-otp" /\ pc[p] = "done" /\ ret[p] = RetNull
        /\ loc[p].threw = Null /\ loc[p].ident = "b@x.io"
        /\ \A i \in 1..Len(otps) : ~Presented(p, otps[i])
        /\ \E i \in 1..Len(otps) :
              /\ otps[i].email = "a@x.io" /\ otps[i].code = loc[p].otp
              /\ ~otps[i].verified /\ otps[i].expiresAt > loc[p].at

\* The number a string of decimal digits denotes.
RECURSIVE ParseInt(_)
ParseInt(digits) ==
    IF digits = <<>> THEN 0
    ELSE 10 * ParseInt(SubSeq(digits, 1, Len(digits) - 1)) + digits[Len(digits)]

\* A code as the claim describes it: six decimal digits, the first not 0, that is
\* an integer in 100000..999999.
IsSixDigitCode(code) ==
    /\ Len(code) = 6
    /\ \A i \in 1..6 : code[i] \in 0..9
    /\ code[1] # 0
    /\ ParseInt(code) \in 100000..999999

\* C22: every step that stores an OTPVerification row stores exactly one, with a
\* code of exactly six decimal digits and no leading zero (an integer in
\* 100000..999999), unverified, and with expiresAt = the time of the call plus
\* 10 * 60 * 1000 ms; the smallest and largest values of Math.random() on a grid
\* of RandGrain steps give such codes too.
C22_SixDigitsTenMinutes ==
    [][/\ (otps' # otps /\ Len(otps') # Len(otps)) =>
             /\ Len(otps') = Len(otps) + 1
             /\ SubSeq(otps', 1, Len(otps)) = otps
             /\ IsSixDigitCode(otps'[Len(otps')].code)
             /\ otps'[Len(otps')].expiresAt = now + 10 * 60 * 1000
             /\ ~otps'[Len(otps')].verified
       /\ \A i \in 1..Len(otps) :
             /\ IsSixDigitCode(otps[i].code)
             /\ otps'[i].code = otps[i].code
             /\ otps'[i].expiresAt = otps[i].expiresAt
       /\ \A n \in {0, 1, RandGrain - 2, RandGrain - 1} :
             IsSixDigitCode(ToString(FloorCode(n, RandGrain)))
      ]_vars

\* C22 witness: an EMAIL row and an SMS row, one stored at time 0 and one after
\* a tick, with different codes.
C22_Witness ==
    \E i, j \in 1..Len(otps) :
        /\ otps[i].type = "EMAIL" /\ otps[j].type = "SMS"
        /\ otps[i].code # otps[j].code
        /\ otps[i].expiresAt = OtpTtlMs
        /\ otps[j].expiresAt = TickMs + OtpTtlMs
        /\ now = TickMs

\* C23: the audit log only grows at its end, by one entry per step, and every
\* entry stays as written; events.signIn with a user id appends one USER_SIGNIN
\* entry of that user with the provider and the new-user flag it was called with
\* (nothing without a user id); the audit write of events.signOut appends one
\* USER_SIGNOUT entry of the token's subject; no other step writes to the log.
C23_AuditAppendOnly ==
    [][/\ Len(auditLog') \in {Len(auditLog), Len(auditLog) + 1}
       /\ SubSeq(auditLog', 1, Len(auditLog)) = auditLog
       /\ (auditLog' # auditLog) =>
             \E p \in Procs :
                 \/ Idle(p) /\ loc'[p].kind = "signInEvent"
                 \/ pc[p] = "out_audit" /\ pc'[p] = "done"
       /\ \A p \in Procs :
             /\ (Idle(p) /\ loc'[p].kind = "signInEvent") =>
                   IF loc'[p].user # 0 /\ loc'[p].threw = Null
                   THEN /\ Len(auditLog') = Len(auditLog) + 1
                        /\ auditLog'[Len(auditLog')].action = "USER_SIGNIN"
                        /\ auditLog'[Len(auditLog')].userId = loc'[p].user
                        /\ auditLog'[Len(auditLog')].metadata.provider = loc'[p].provider
                        /\ auditLog'[Len(auditLog')].metadata.isNewUser = loc'[p].isNewUser
                   ELSE auditLog' = auditLog
             /\ (pc[p] = "out_audit" /\ pc'[p] = "done") =>
                   IF loc'[p].threw = Null
                   THEN /\ Len(auditLog') = Len(auditLog) + 1
                        /\ auditLog'[Len(auditLog')].action = "USER_SIGNOUT"
                        /\ auditLog'[Len(auditLog')].userId = loc[p].user
                   ELSE auditLog' = auditLog
      ]_vars

\* C23 witness: a first-time Google sign-in was logged, then the sign-out of the
\* same user behind it.
C23_Witness ==
    /\ Len(auditLog) = 2
    /\ auditLog[1].action = "USER_SIGNIN"
    /\ auditLog[1].metadata.provider = "google" /\ auditLog[1].metadata.isNewUser
    /\ auditLog[2].action = "USER_SIGNOUT"
    /\ auditLog[2].userId = auditLog[1].userId

\* C24 as stated: an authorize call that returns null has left the store as it
\* was: the step that returns null changes nothing, and a call that has switched
\* its OTPVerification row to verified does not return null.
C24_NullLeavesStoreUnchanged ==
    [][\A p \in Procs :
          /\ (IsAuthorize(p)' /\ pc[p] # "done" /\ pc'[p] = "done" /\ ret'[p] = RetNull)
                => UNCHANGED dbVars
          /\ (IsAuthorize(p) /\ pc[p] \in {"otp_user", "otp_create"} /\ pc'[p] = "done")
                => ret'[p].tag = "user"
      ]_vars

\* C24 as amended: an authorize call creates no User unless it returns that user,
\* and the step that returns null changes nothing; a call that returns null
\* before or at its OTP update (missing field, no matching row, findFirst or
\* update failed) has changed nothing at all; a call that returns null after its
\* OTP update (user.findUnique or user.create failed) has switched the selected
\* row, and only that row, to verified and leaves it so.
C24_NullAfterUpdateKeepsVerified ==
    [][\A p \in Procs :
          /\ (Idle(p) /\ IsAuthorize(p)') => UNCHANGED dbVars
          /\ (IsAuthorize(p)' /\ pc[p] # "done" /\ pc'[p] = "done" /\ ret'[p] = RetNull)
                => UNCHANGED dbVars
          /\ (pc[p] = "otp_update" /\ pc'[p] = "done") =>
                /\ ret'[p] = RetNull
                /\ loc'[p].threw = "oTPVerification.update"
          /\ (pc[p] = "otp_update" /\ pc'[p] = "otp_user") =>
                /\ otps' = [otps EXCEPT ![loc[p].rec].verified = TRUE]
                /\ UNCHANGED <<users, deviceSessions, pendingSessions, auditLog>>
          /\ (pc[p] = "otp_user" /\ pc'[p] # "otp_user") => UNCHANGED dbVars
          /\ (IsAuthorize(p) /\ pc[p] \in {"otp_user", "otp_create"}) =>
                /\ otps[loc[p].rec].verified
                /\ otps'[loc[p].rec].verified
                /\ (pc'[p] = "done" /\ ret'[p] = RetNull) =>
                      loc'[p].threw \in {"user.findUnique", "user.create"}
          /\ (pc[p] = "otp_create" /\ pc'[p] = "done") =>
                /\ otps' = otps
                /\ IF ret'[p].tag = "user"
                   THEN Len(users') = Len(users) + 1 /\ ret'[p].id = Len(users')
                   ELSE users' = users
      ]_vars

\* C24 witness: a first-time sign-in with a valid code returned null because
\* user.create failed: its OTPVerification row is verified and there is no User
\* for the identifier.
C24_Witness ==
    \E p \in Procs :
        /\ IsAuthorize(p) /\ pc[p] = "done" /\ ret[p] = RetNull
        /\ loc[p].threw = "user.create"
        /\ loc[p].rec # 0 /\ otps[loc[p].rec].verified
        /\ FindUniqueUser(IdentField(loc[p].kind), loc[p].ident) = 0

\* C25: a run of callbacks.signIn for an existing Google user has exactly three
\* ends.  Its first two steps (user lookup, count) write nothing.  Its last step
\* either returns true and appends one DeviceSession of the user and no
\* PendingDeviceSession, or returns /auth/device-limit-exceeded and appends one
\* PendingDeviceSession of the user and no DeviceSession, or returns false and
\* writes nothing.
C25_ThreeOutcomes ==
    [][\A p \in Procs :
          /\ (IsGoogleSignIn(p)' /\ loc'[p].user # 0 /\ pc[p] \in {"idle", "gate_count"}
                /\ pc'[p] # pc[p]) =>
                /\ UNCHANGED <<deviceSessions, pendingSessions>>
                /\ (pc'[p] = "done") => ret'[p] = RetFalse
          /\ (pc[p] \in {"gate_create", "gate_pending"} /\ pc'[p] # pc[p]) =>
                /\ pc'[p] = "done"
                /\ \/ /\ ret'[p] = RetTrue
                      /\ pc[p] = "gate_create"
                      /\ Len(deviceSessions') = Len(deviceSessions) + 1
                      /\ SubSeq(deviceSessions', 1, Len(deviceSessions)) = deviceSessions
                      /\ deviceSessions'[Len(deviceSessions')].userId = loc[p].user
                      /\ pendingSessions' = pendingSessions
                   \/ /\ ret'[p] = RetUrl(<<"/", "auth", "/", "device-limit-exceeded">>)
                      /\ pc[p] = "gate_pending"
                      /\ Len(pendingSessions') = Len(pendingSessions) + 1
                      /\ SubSeq(pendingSessions', 1, Len(pendingSessions)) = pendingSessions
                      /\ pendingSessions'[Len(pendingSessions')].userId = loc[p].user
                      /\ deviceSessions' = deviceSessions
                   \/ /\ ret'[p] = RetFalse
                      /\ UNCHANGED <<deviceSessions, pendingSessions>>
          /\ (IsGoogleSignIn(p) /\ loc[p].user # 0 /\ pc[p] = "done") =>
                ret[p] \in {RetTrue, RetFalse,
                            RetUrl(<<"/", "auth", "/", "device-limit-exceeded">>)}
      ]_vars

\* C25 witness: after an admitted run, a run for the same user has ended with the
\* limit-exceeded path and another one with false (its pending create failed);
\* the user has one DeviceSession and one PendingDeviceSession.
C25_Witness ==
    \E p, q \in Procs :
        /\ p # q /\ IsGoogleSignIn(p) /\ IsGoogleSignIn(q)
        /\ loc[p].user # 0 /\ loc[p].user = loc[q].user
        /\ pc[p] = "done" /\ pc[q] = "done"
        /\ ret[p].tag = "url" /\ ret[q] = RetFalse
        /\ loc[q].threw = "pendingDeviceSession.create"
        /\ RowsOf(deviceSessions, loc[p].user) = 1
        /\ RowsOf(pendingSessions, loc[p].user) = 1

\* C26: once the updateMany of a signOut event for U has run, a sign-in of U
\* whose count step ran before it does not end admitted: no active DeviceSession
\* appears behind the sign-out except by a sign-in that counted after it.
\* (Stated as the claim states it; the code breaks it.)
C26_NoAdmissionAcrossSignOut ==
    \A p \in Procs :
        (IsGoogleSignIn(p) /\ loc[p].stale) => ~(pc[p] = "done" /\ ret[p] = RetTrue)

\* C27: one request at a time, a sign-out frees the user's capacity.  The
\* updateMany of events.signOut leaves the user without an active DeviceSession,
\* whatever the audit write does afterwards; a user without one stays so until
\* a sign-in of that user is admitted; and a Google sign-in of an existing user
\* that counts while the user has none is sent to the create branch, whatever
\* the limit, and ends admitted (true, with a new active DeviceSession) unless a
\* data-layer call fails (false): it is never deferred.
C27_SignOutFreesCapacity ==
    [][\A p \in Procs :
          /\ (Idle(p) /\ pc'[p] = "out_audit") =>
                \A i \in 1..Len(deviceSessions') :
                    deviceSessions'[i].userId = loc'[p].user => ~deviceSessions'[i].active
          /\ (pc[p] = "out_audit") =>
                \A i \in 1..Len(deviceSessions') :
                    deviceSessions'[i].userId = loc[p].user => ~deviceSessions'[i].active
          /\ \A u \in 1..Len(users) :
                ((\A i \in 1..Len(deviceSessions) :
                      deviceSessions[i].userId = u => ~deviceSessions[i].active)
                 /\ (\E i \in 1..Len(deviceSessions') :
                      deviceSessions'[i].userId = u /\ deviceSessions'[i].active))
                  => \E q \in Procs : /\ pc[q] = "gate_create" /\ loc[q].user = u
                                      /\ ret'[q] = RetTrue
          /\ (pc[p] = "gate_count" /\ pc'[p] # "gate_count"
                /\ \A i \in 1..Len(deviceSessions) :
                      deviceSessions[i].userId = loc[p].user => ~deviceSessions[i].active) =>
                \/ pc'[p] = "gate_create" /\ loc'[p].activeDevices = 0
                                          /\ loc'[p].maxDevices >= 1
                \/ pc'[p] = "done" /\ ret'[p] = RetFalse /\ loc'[p].threw # Null
          /\ (pc[p] = "gate_create" /\ pc'[p] = "done" /\ loc[p].activeDevices = 0) =>
                \/ /\ ret'[p] = RetTrue
                   /\ deviceSessions'[Len(deviceSessions')].userId = loc[p].user
                   /\ deviceSessions'[Len(deviceSessions')].active
                \/ ret'[p] = RetFalse /\ loc'[p].threw # Null
      ]_vars

\* C27 witness: a user at the limit had a sign-in deferred, signed out, and the
\* next sign-in counted no active session and was admitted.
C27_Witness ==
    \E p \in Procs :
        /\ IsGoogleSignIn(p) /\ pc[p] = "done" /\ ret[p] = RetTrue /\ loc[p].user # 0
        /\ loc[p].activeDevices = 0
        /\ RowsOf(pendingSessions, loc[p].user) >= 1
        /\ InactiveOf(loc[p].user) >= 1
        /\ ActiveOf(loc[p].user) = 1
        /\ \E i \in 1..Len(auditLog) :
              auditLog[i].action = "USER_SIGNOUT" /\ auditLog[i].userId = loc[p].user

\* C28: issuing a code leaves every earlier OTPVerification row as it was; an
\* authorize call that presents the identifier and code of some unverified,
\* unexpired row is accepted (it selects such a row) unless the data layer fails,
\* however many rows the identifier has; and the update that follows switches
\* the selected row to verified and leaves every other row as it was.
C28_EarlierCodesStayValid ==
    [][\A p \in Procs :
          /\ (Idle(p) /\ loc'[p].kind \in {"sendEmailOTP", "sendSMSOTP"}) =>
                /\ SubSeq(otps', 1, Len(otps)) = otps
                /\ Len(otps') = IF loc'[p].threw = Null THEN Len(otps) + 1 ELSE Len(otps)
          /\ (Idle(p) /\ IsAuthorize(p)' /\ loc'[p].threw = Null
                /\ \E i \in 1..Len(otps) :
                      /\ PresentedBy(loc'[p], otps[i])
                      /\ ~otps[i].verified
                      /\ now < otps[i].expiresAt) =>
                /\ pc'[p] = "otp_update"
                /\ PresentedBy(loc'[p], otps[loc'[p].rec])
                /\ ~otps[loc'[p].rec].verified
          /\ (pc[p] = "otp_update" /\ pc'[p] = "otp_user") =>
                /\ Len(otps') = Len(otps)
                /\ otps'[loc[p].rec].verified
                /\ \A i \in 1..Len(otps) : (i # loc[p].rec) => otps'[i] = otps[i]
      ]_vars

\* C28 witness: a@x.io was sent two different codes; the earlier one was accepted
\* after the later one had been issued, and the later one is still unverified and
\* unexpired.
C28_Witness ==
    \E p \in Procs :
        /\ loc[p].kind = "email-otp" /\ pc[p] = "done" /\ ret[p].tag = "user"
        /\ Len(otps) = 2 /\ loc[p].rec = 1
        /\ otps[1].email = otps[2].email /\ otps[1].code # otps[2].code
        /\ otps[1].verified /\ ~otps[2].verified /\ otps[2].expiresAt > now

\* C29: whatever url and baseUrl callbacks.redirect is called with, the value it
\* returns is baseUrl itself, or baseUrl followed by "/" and more, or the url
\* itself when the origin of the url is baseUrl; in each case the origin of the
\* returned value is baseUrl.  (For a url that is neither relative nor absolute
\* new URL throws and nothing is returned.)
C29_RedirectStaysOnOrigin ==
    \A p \in Procs :
        (loc[p].kind = "redirect" /\ pc[p] = "done") =>
            LET r == ret[p].url
                b == loc[p].baseUrl
            IN  \/ /\ ret[p] = RetThrow
                   /\ ~IsAbsolute(loc[p].url) /\ ~StartsWith(loc[p].url, "/")
                \/ /\ ret[p].tag = "url"
                   /\ \/ r = b
                      \/ /\ Len(r) > Len(b)
                         /\ SubSeq(r, 1, Len(b)) = b
                         /\ r[Len(b) + 1] = "/"
                      \/ /\ r = loc[p].url
                         /\ IsAbsolute(r)
                         /\ OriginOf(r) = b
                   /\ IsAbsolute(r)
                   /\ OriginOf(r) = b

\* C29 witness: redirect was called with an absolute url of another origin and
\* answered with baseUrl.
C29_Witness ==
    \E p \in Procs :
        /\ loc[p].kind = "redirect" /\ pc[p] = "done"
        /\ IsAbsolute(loc[p].url) /\ Len(loc[p].url) = 2
        /\ OriginOf(loc[p].url) # loc[p].baseUrl
        /\ loc[p].url[1] # loc[p].baseUrl[1]
        /\ ret[p] = RetUrl(loc[p].baseUrl)

====
